---- MODULE Spec2Model ----
(***************************************************************************)
(* Model of image-collage.py: the directory scanner (get_image_files), the *)
(* grid planner (calculate_grid_size), the canvas composer                 *)
(* (create_collages) and the directory-walking driver (main).              *)
(*                                                                         *)
(* Python strings are sequences of one-character strings, compared by code *)
(* point as Python compares them.  The file system is a set of directory   *)
(* paths and a function from the paths of regular files to their contents. *)
(***************************************************************************)
EXTENDS Integers, Sequences, FiniteSets, TLC

VARIABLES
    dirs,               \* the paths that are directories
    disk,               \* path of a regular file |-> its contents
    supported_formats,  \* config['DEFAULT']['supported_formats'], the raw string
    skip_errors,        \* config['DEFAULT'].getboolean('skip_errors')
    directory,          \* args.directory
    size,               \* args.size
    subdirs_flag,       \* args.subdirs
    pc,                 \* position of the program
    todo,               \* main: sub-directories the for loop has not visited yet
    cc,                 \* frame of create_collages: its arguments and locals
    returned,           \* outcome of the last create_collages call
    written,            \* paths saved by the running create_collages call, in order
    scans,              \* log of the get_image_files calls: directory and result
    calls,              \* log of the finished create_collages calls
    runs                \* number of times the program was started

vars == <<dirs, disk, supported_formats, skip_errors, directory, size,
          subdirs_flag, pc, todo, cc, returned, written, scans, calls, runs>>

----------------------------------------------------------------------------
(* Bounds of the model *)

MaxImages == 10      \* longest image list handed to create_collages
MaxFaults == 1       \* most corrupt images in one list
MaxRuns == 2         \* how often the program is started on the same tree
MaxEntries == 4      \* most directory entries in a scanned listing
MaxTreeFiles == 2    \* most files below the thumbs folders of a tree

----------------------------------------------------------------------------
(* Python str *)

Digits == <<"0", "1", "2", "3", "4", "5", "6", "7", "8", "9">>
Upper == <<"A", "B", "C", "D", "E", "F", "G", "H", "I", "J", "K", "L", "M",
           "N", "O", "P", "Q", "R", "S", "T", "U", "V", "W", "X", "Y", "Z">>
Lower == <<"a", "b", "c", "d", "e", "f", "g", "h", "i", "j", "k", "l", "m",
           "n", "o", "p", "q", "r", "s", "t", "u", "v", "w", "x", "y", "z">>

Range(s) == {s[i] : i \in 1..Len(s)}

IndexOf(s, c) == CHOOSE i \in 1..Len(s) : s[i] = c

Chars == {" ", ",", ".", "/", "_"} \cup Range(Digits) \cup Range(Upper) \cup Range(Lower)

\* the code point of every character
CodePoints ==
    [c \in Chars |->
        IF c = " " THEN 32
        ELSE IF c = "," THEN 44
        ELSE IF c = "." THEN 46
        ELSE IF c = "/" THEN 47
        ELSE IF c \in Range(Digits) THEN 47 + IndexOf(Digits, c)
        ELSE IF c \in Range(Upper) THEN 64 + IndexOf(Upper, c)
        ELSE IF c = "_" THEN 95
        ELSE 96 + IndexOf(Lower, c)]

\* ord(c)
ord(c) == CodePoints[c]

\* the lower-case form of every character
LowerCase ==
    [c \in Chars |-> IF c \in Range(Upper) THEN Lower[IndexOf(Upper, c)] ELSE c]

\* str.lower() on one character
lower_char(c) == LowerCase[c]

\* str.lower()
lower(s) == [i \in 1..Len(s) |-> lower_char(s[i])]

\* str.startswith(prefix)
startswith(s, prefix) ==
    /\ Len(prefix) <= Len(s)
    /\ SubSeq(s, 1, Len(prefix)) = prefix

\* str.endswith(suffix)
endswith(s, suffix) ==
    /\ Len(suffix) <= Len(s)
    /\ SubSeq(s, Len(s) - Len(suffix) + 1, Len(s)) = suffix

\* a < b for two str: the first differing code point decides, a proper
\* prefix is smaller
RECURSIVE str_less(_, _)
str_less(a, b) ==
    IF b = <<>> THEN FALSE
    ELSE IF a = <<>> THEN TRUE
    ELSE IF ord(Head(a)) # ord(Head(b)) THEN ord(Head(a)) < ord(Head(b))
    ELSE str_less(Tail(a), Tail(b))

\* str.split(sep) for a one-character separator: never an empty list
RECURSIVE split(_, _)
split(s, sep) ==
    IF \A i \in 1..Len(s) : s[i] # sep THEN <<s>>
    ELSE LET k == CHOOSE i \in 1..Len(s) :
                      s[i] = sep /\ \A j \in 1..(i - 1) : s[j] # sep
         IN  <<SubSeq(s, 1, k - 1)>> \o split(SubSeq(s, k + 1, Len(s)), sep)

\* str(n) for an int n >= 0
RECURSIVE str(_)
str(n) == IF n < 10 THEN <<Digits[n + 1]>>
          ELSE str(n \div 10) \o <<Digits[(n % 10) + 1]>>

\* sorted(xs) of a collection of distinct str: ascending by str_less
RECURSIVE sorted(_)
sorted(S) ==
    IF S = {} THEN <<>>
    ELSE LET least == CHOOSE x \in S : \A y \in S \ {x} : str_less(x, y)
         IN  <<least>> \o sorted(S \ {least})

----------------------------------------------------------------------------
(* os and os.path *)

\* os.path.join(a, b) for a relative b
join(a, b) ==
    IF a = <<>> \/ a[Len(a)] = "/" THEN a \o b ELSE a \o <<"/">> \o b

\* index of the last "/" of p, 0 when there is none
rfind_slash(p) ==
    IF \A i \in 1..Len(p) : p[i] # "/" THEN 0
    ELSE CHOOSE i \in 1..Len(p) : p[i] = "/" /\ \A j \in (i + 1)..Len(p) : p[j] # "/"

\* str.rstrip('/')
RECURSIVE rstrip_slash(_)
rstrip_slash(p) ==
    IF p # <<>> /\ p[Len(p)] = "/" THEN rstrip_slash(SubSeq(p, 1, Len(p) - 1))
    ELSE p

\* os.path.dirname(p)
dirname(p) ==
    LET head == SubSeq(p, 1, rfind_slash(p))
    IN  IF head # <<>> /\ \E i \in 1..Len(head) : head[i] # "/"
        THEN rstrip_slash(head) ELSE head

\* os.path.basename(p)
basename(p) == SubSeq(p, rfind_slash(p) + 1, Len(p))

\* os.path.isfile(p), os.path.isdir(p)
isfile(p) == p \in DOMAIN disk
isdir(p) == p \in dirs

\* os.listdir(d): the names of the entries of d, in no particular order
listdir(d) == {basename(p) : p \in {q \in dirs \cup DOMAIN disk : dirname(q) = d /\ q # d}}

----------------------------------------------------------------------------
(* File contents *)

\* A source image file: pixel data `id` of the given size.  fault says which
\* PIL call on the file raises: "open" (Image.open at lines 87 and 115),
\* "convert" (img.convert or collage.paste at lines 116-117, both inside the
\* try of line 111), or "none".
SourceImage(id, sz, fault) ==
    [size |-> sz, fault |-> fault, quality |-> 0,
     pixels |-> <<[at |-> <<0, 0>>, size |-> sz, id |-> id]>>]

----------------------------------------------------------------------------
(* CollageGenerator *)

jpeg_quality == 85

collage_prefix == <<"c", "o", "l", "l", "a", "g", "e", "_">>

\* the prefix test of line 59 written with a hyphen for the underscore
is_existing_collage_hyphen(file) ==
    startswith(lower(file), <<"c", "o", "l", "l", "a", "g", "e", "-">>)

\* line 59: the file is taken for an existing collage and skipped
is_existing_collage(file) == startswith(lower(file), collage_prefix)

\* line 63: any(file.lower().endswith(fmt) for fmt in supported_formats)
has_supported_format(file, formats) ==
    \E k \in 1..Len(formats) : endswith(lower(file), formats[k])

\* get_image_files(directory), lines 45-69
get_image_files(d) ==
    LET formats == split(supported_formats, ",")
        files == {f \in listdir(d) : isfile(join(d, f))}
        image_files == {join(d, file) : file \in
                           {f \in files : /\ ~is_existing_collage(f)
                                          /\ has_supported_format(f, formats)}}
    IN  sorted(image_files)

----------------------------------------------------------------------------
(* State before the program or a call starts *)

NoFrame ==
    [image_files |-> <<>>, target_size |-> 0, thumb_size |-> <<0, 0>>,
     images_per_row |-> 0, images_per_collage |-> 0, output_dir |-> <<>>,
     collage_paths |-> <<>>, chunk_idx |-> 0, i |-> 0, chunk_files |-> <<>>,
     rows |-> 0, cols |-> 0, collage |-> [size |-> <<0, 0>>, pixels |-> <<>>],
     idx |-> 0, caller |-> "none"]

NotReturned == [kind |-> "none", paths |-> <<>>]

Idle ==
    /\ todo = {}
    /\ cc = NoFrame
    /\ returned = NotReturned
    /\ written = <<>>
    /\ scans = <<>>
    /\ calls = <<>>
    /\ runs = 0

----------------------------------------------------------------------------
(* create_collages(image_files, target_size), lines 75-130 *)

\* the clamp of line 83 written with <= for <
effective_target_size_le(target_size) ==
    IF target_size <= 100 THEN 2000 ELSE target_size

\* lines 83-85: a target size below 100 is replaced by 2000
effective_target_size(target_size) ==
    IF target_size < 100 THEN 2000 ELSE target_size

max(a, b) == IF a >= b THEN a ELSE b

\* line 92: max(1, target_size // thumb_size[0]), target_size already clamped
images_per_row_of(target_size, thumb_width) == max(1, target_size \div thumb_width)

\* line 94: max(1, images_per_row * images_per_row)
images_per_collage_of(images_per_row) == max(1, images_per_row * images_per_row)

\* math.ceil(math.sqrt(n)) for an int n >= 0; math.sqrt is exact on the
\* squares below 2^53, so the value is found by stepping up from 0
RECURSIVE ceil_sqrt_from(_, _)
ceil_sqrt_from(n, g) == IF g * g >= n THEN g ELSE ceil_sqrt_from(n, g + 1)

ceil_sqrt(n) == ceil_sqrt_from(n, 0)

\* line 72 written with math.floor for math.ceil
calculate_grid_size_floor(num_images, target_size) ==
    LET g == IF ceil_sqrt(num_images) * ceil_sqrt(num_images) = num_images
             THEN ceil_sqrt(num_images) ELSE ceil_sqrt(num_images) - 1
    IN  <<g, g>>

\* calculate_grid_size(num_images, target_size), lines 71-73: (rows, cols)
calculate_grid_size(num_images, target_size) ==
    <<ceil_sqrt(num_images), ceil_sqrt(num_images)>>

min(a, b) == IF a <= b THEN a ELSE b

\* xs[i:j] for 0 <= i <= j, 0-based and clipped to the list as Python does
slice(xs, i, j) == SubSeq(xs, i + 1, min(j, Len(xs)))

\* the slice of line 105 one image short
chunk_of_short(image_files, i, images_per_collage) ==
    slice(image_files, i, i + images_per_collage - 1)

\* line 105: image_files[i:i + images_per_collage]
chunk_of(image_files, i, images_per_collage) ==
    slice(image_files, i, i + images_per_collage)

\* line 112 written with % for //
cell_row_mod(idx, cols) == idx % cols

\* lines 112-113 and 117: the paste position of the idx-th image of a chunk
cell_row(idx, cols) == idx \div cols
cell_col(idx, cols) == idx % cols
paste_position(idx, cols, thumb_size) ==
    <<cell_col(idx, cols) * thumb_size[1], cell_row(idx, cols) * thumb_size[2]>>

\* line 108: Image.new('RGB', (cols * thumb_size[0], rows * thumb_size[1]), 'white')
new_canvas(rows, cols, thumb_size) ==
    [size |-> <<cols * thumb_size[1], rows * thumb_size[2]>>, pixels |-> <<>>]

\* line 124: os.path.join(output_dir, f'collage_{chunk_idx + 1}.jpg')
output_path_of(output_dir, chunk_idx) ==
    join(output_dir, collage_prefix \o str(chunk_idx + 1) \o <<".", "j", "p", "g">>)

\* where control goes when create_collages returns to its caller
return_pc(caller) ==
    IF caller = "root" THEN "exit" ELSE IF caller = "loop" THEN "loop" ELSE "returned"

\* the record logged when a create_collages call ends
CallRecord(outcome, paths) ==
    [run |-> runs, dir |-> dirname(cc.image_files[1]), files |-> cc.image_files,
     outcome |-> outcome, paths |-> paths, written |-> written,
     contents |-> [k \in 1..Len(written) |-> disk[written[k]]]]

\* lines 76-78: create_collages on an empty list returns []
ReturnEmpty ==
    /\ pc = "create_collages"
    /\ cc.image_files = <<>>
    /\ returned' = [kind |-> "returned", paths |-> <<>>]
    /\ pc' = return_pc(cc.caller)
    /\ UNCHANGED <<dirs, disk, supported_formats, skip_errors, directory, size,
                   subdirs_flag, todo, cc, written, scans, calls, runs>>

\* lines 80-102: clamp the target size, measure the first image, derive the
\* chunk size and the output directory
Begin ==
    /\ pc = "create_collages"
    /\ cc.image_files # <<>>
    /\ disk[cc.image_files[1]].fault # "open"
    /\ LET target == effective_target_size(cc.target_size)
           thumb == disk[cc.image_files[1]].size
           per_row == images_per_row_of(target, thumb[1])
       IN  cc' = [cc EXCEPT !.target_size = target,
                            !.thumb_size = thumb,
                            !.images_per_row = per_row,
                            !.images_per_collage = images_per_collage_of(per_row),
                            !.output_dir = dirname(cc.image_files[1]),
                            !.collage_paths = <<>>,
                            !.chunk_idx = 0,
                            !.i = 0]
    /\ pc' = "chunk"
    /\ UNCHANGED <<dirs, disk, supported_formats, skip_errors, directory, size,
                   subdirs_flag, todo, returned, written, scans, calls, runs>>

\* line 87 outside any try: Image.open(image_files[0]) raises and the
\* exception leaves create_collages
SampleOpenRaises ==
    /\ pc = "create_collages"
    /\ cc.image_files # <<>>
    /\ disk[cc.image_files[1]].fault = "open"
    /\ returned' = [kind |-> "raised", paths |-> <<>>]
    /\ calls' = Append(calls, CallRecord("raised", <<>>))
    /\ pc' = "raised"
    /\ UNCHANGED <<dirs, disk, supported_formats, skip_errors, directory, size,
                   subdirs_flag, todo, cc, written, scans, runs>>

\* lines 104-108: the next chunk, its grid and its white canvas
NextChunk ==
    /\ pc = "chunk"
    /\ cc.i < Len(cc.image_files)
    /\ LET chunk == chunk_of(cc.image_files, cc.i, cc.images_per_collage)
           grid == calculate_grid_size(Len(chunk), cc.target_size)
       IN  cc' = [cc EXCEPT !.chunk_files = chunk,
                            !.rows = grid[1],
                            !.cols = grid[2],
                            !.collage = new_canvas(grid[1], grid[2], cc.thumb_size),
                            !.idx = 0]
    /\ pc' = "paste"
    /\ UNCHANGED <<dirs, disk, supported_formats, skip_errors, directory, size,
                   subdirs_flag, todo, returned, written, scans, calls, runs>>

\* lines 110-117: open, convert and paste the idx-th image of the chunk
Paste ==
    /\ pc = "paste"
    /\ cc.idx < Len(cc.chunk_files)
    /\ LET img == disk[cc.chunk_files[cc.idx + 1]]
       IN  /\ img.fault = "none"
           /\ cc' = [cc EXCEPT
                  !.collage.pixels = cc.collage.pixels \o
                      [k \in 1..Len(img.pixels) |->
                          [at |-> paste_position(cc.idx, cc.cols, cc.thumb_size),
                           size |-> img.size, id |-> img.pixels[k].id]],
                  !.idx = cc.idx + 1]
    /\ UNCHANGED <<dirs, disk, supported_formats, skip_errors, directory, size,
                   subdirs_flag, pc, todo, returned, written, scans, calls, runs>>

\* lines 119-122 with skip_errors: the error is logged, the image is skipped
SkipImage ==
    /\ pc = "paste"
    /\ cc.idx < Len(cc.chunk_files)
    /\ disk[cc.chunk_files[cc.idx + 1]].fault # "none"
    /\ skip_errors
    /\ cc' = [cc EXCEPT !.idx = cc.idx + 1]
    /\ UNCHANGED <<dirs, disk, supported_formats, skip_errors, directory, size,
                   subdirs_flag, pc, todo, returned, written, scans, calls, runs>>

\* lines 119-122 without the raise: the error is only logged
RaiseImage_swallowed ==
    /\ pc = "paste"
    /\ cc.idx < Len(cc.chunk_files)
    /\ disk[cc.chunk_files[cc.idx + 1]].fault # "none"
    /\ ~skip_errors
    /\ cc' = [cc EXCEPT !.idx = cc.idx + 1]
    /\ UNCHANGED <<dirs, disk, supported_formats, skip_errors, directory, size,
                   subdirs_flag, pc, todo, returned, written, scans, calls, runs>>

\* lines 119-122 without skip_errors: the error is logged and raised again
RaiseImage ==
    /\ pc = "paste"
    /\ cc.idx < Len(cc.chunk_files)
    /\ disk[cc.chunk_files[cc.idx + 1]].fault # "none"
    /\ ~skip_errors
    /\ returned' = [kind |-> "raised", paths |-> <<>>]
    /\ calls' = Append(calls, CallRecord("raised", <<>>))
    /\ pc' = "raised"
    /\ UNCHANGED <<dirs, disk, supported_formats, skip_errors, directory, size,
                   subdirs_flag, todo, cc, written, scans, runs>>

\* lines 124-128: save the canvas as collage_<chunk_idx + 1>.jpg
Save ==
    /\ pc = "paste"
    /\ cc.idx = Len(cc.chunk_files)
    /\ LET output_path == output_path_of(cc.output_dir, cc.chunk_idx)
           file == [size |-> cc.collage.size, fault |-> "none",
                    quality |-> jpeg_quality, pixels |-> cc.collage.pixels]
       IN  /\ disk' = [p \in DOMAIN disk \cup {output_path} |->
                          IF p = output_path THEN file ELSE disk[p]]
           /\ written' = Append(written, output_path)
           /\ cc' = [cc EXCEPT !.collage_paths = Append(cc.collage_paths, output_path),
                               !.chunk_idx = cc.chunk_idx + 1,
                               !.i = cc.i + cc.images_per_collage]
    /\ pc' = "chunk"
    /\ UNCHANGED <<dirs, supported_formats, skip_errors, directory, size,
                   subdirs_flag, todo, returned, scans, calls, runs>>

\* line 130: the loop is over, return collage_paths
Return ==
    /\ pc = "chunk"
    /\ cc.i >= Len(cc.image_files)
    /\ returned' = [kind |-> "returned", paths |-> cc.collage_paths]
    /\ calls' = Append(calls, CallRecord("returned", cc.collage_paths))
    /\ pc' = return_pc(cc.caller)
    /\ UNCHANGED <<dirs, disk, supported_formats, skip_errors, directory, size,
                   subdirs_flag, todo, cc, written, scans, runs>>

create_collages ==
    \/ ReturnEmpty
    \/ Begin
    \/ SampleOpenRaises
    \/ NextChunk
    \/ Paste
    \/ SkipImage
    \/ RaiseImage
    \/ Save
    \/ Return

----------------------------------------------------------------------------
(* Specification of the scanner alone: get_image_files applied to one      *)
(* directory listing under one configuration                               *)

ScanDir == <<"d">>

ScanNames ==
    { <<"a", ".", "j", "p", "g">>,
      <<"B", ".", "J", "P", "G">>,
      <<"c", ".", "j", "p", "e", "g">>,
      <<"d", ".", "P", "n", "g">>,
      <<"e", ".", "t", "x", "t">>,
      <<"j", "p", "g">>,
      <<".", "j", "p", "g">>,
      <<"c", "o", "l", "l", "a", "g", "e", "_", "1", ".", "j", "p", "g">>,
      <<"C", "o", "l", "l", "a", "g", "e", "_", "x", ".", "P", "N", "G">>,
      <<"c", "o", "l", "l", "a", "g", "e", ".", "j", "p", "g">>,
      <<"A", "_", "2", ".", "j", "p", "g">> }

DefaultFormats == <<".", "j", "p", "g", ",", ".", "j", "p", "e", "g", ",",
                    ".", "p", "n", "g">>

ScanFormats ==
    { DefaultFormats,
      <<".", "p", "n", "g">>,
      <<".", "J", "P", "G", ",", ".", "p", "n", "g">>,
      <<".", "j", "p", "g", ",", " ", ".", "p", "n", "g">> }

InitScan ==
    /\ directory = ScanDir
    /\ supported_formats \in ScanFormats
    /\ \E entries \in SUBSET ScanNames :
         /\ Cardinality(entries) <= MaxEntries
         /\ \E folders \in SUBSET entries :
              /\ dirs = {ScanDir} \cup {join(ScanDir, n) : n \in folders}
              /\ disk = [p \in {join(ScanDir, n) : n \in entries \ folders}
                           |-> SourceImage(1, <<1, 1>>, "none")]
    /\ skip_errors = TRUE
    /\ size = 2000
    /\ subdirs_flag = FALSE
    /\ pc = "scan"
    /\ Idle

\* one call of get_image_files(directory)
Scan ==
    /\ pc = "scan"
    /\ scans' = Append(scans, [run |-> runs, dir |-> directory,
                                files |-> get_image_files(directory)])
    /\ pc' = "scanned"
    /\ UNCHANGED <<dirs, disk, supported_formats, skip_errors, directory, size,
                   subdirs_flag, todo, cc, returned, written, calls, runs>>

NextScan == Scan

SpecScan == InitScan /\ [][NextScan]_vars

\* C1: get_image_files(D) returns exactly the regular files directly in D
\* whose name, compared case-insensitively, does not start with 'collage_'
\* and, compared case-insensitively, ends with one of the configured
\* extensions; directories are never returned, and the result is in
\* ascending lexicographic order of full path.
C1_Eligible(name) ==
    /\ join(directory, name) \in DOMAIN disk
    /\ ~startswith(lower(name), lower(collage_prefix))
    /\ \E k \in 1..Len(split(supported_formats, ",")) :
         endswith(lower(name), lower(split(supported_formats, ",")[k]))

C1_ScanExact ==
    pc = "scanned" =>
        LET files == scans[Len(scans)].files
        IN  /\ Range(files) = {join(directory, n) : n \in {m \in ScanNames : C1_Eligible(m)}}
            /\ \A a, b \in 1..Len(files) : a < b => str_less(files[a], files[b])
            /\ \A a \in 1..Len(files) : files[a] \notin dirs

----------------------------------------------------------------------------
(* Specification of one create_collages call on a sorted image list *)

thumbs == <<"t", "h", "u", "m", "b", "s">>

CollageDir == join(<<"w">>, thumbs)

\* i01.jpg, i02.jpg, ...: names in ascending order
ImageName(k) == <<"i">> \o str(k \div 10) \o str(k % 10) \o <<".", "j", "p", "g">>
ImagePath(k) == join(CollageDir, ImageName(k))

ThumbSizes == {<<1, 1>>, <<400, 400>>, <<500, 300>>, <<2500, 2000>>}
OtherSize == <<7, 5>>
TargetSizes == {0 - 7, 50, 99, 100, 1000, 2000}
FaultKinds == {"open", "convert"}

InitCollages ==
    /\ \E n \in 0..MaxImages, first \in ThumbSizes, uniform \in BOOLEAN :
         \E F \in {S \in SUBSET (1..n) : Cardinality(S) <= MaxFaults} :
           \E kind \in [F -> FaultKinds] :
             /\ uniform \/ n >= 2
             /\ disk = [p \in {ImagePath(k) : k \in 1..n} |->
                          LET k == CHOOSE j \in 1..n : ImagePath(j) = p
                          IN  SourceImage(k,
                                  IF uniform \/ k = 1 THEN first ELSE OtherSize,
                                  IF k \in F THEN kind[k] ELSE "none")]
             /\ \E t \in TargetSizes :
                  /\ size = t
                  /\ cc = [NoFrame EXCEPT !.image_files = [k \in 1..n |-> ImagePath(k)],
                                          !.target_size = t]
    /\ dirs = {<<"w">>, CollageDir}
    /\ directory = <<"w">>
    /\ supported_formats = DefaultFormats
    /\ skip_errors \in BOOLEAN
    /\ subdirs_flag = FALSE
    /\ pc = "create_collages"
    /\ todo = {}
    /\ returned = NotReturned
    /\ written = <<>>
    /\ scans = <<>>
    /\ calls = <<>>
    /\ runs = 0

NextCollages == create_collages

SpecCollages == InitCollages /\ [][NextCollages]_vars

TypeOKCollages ==
    /\ pc \in {"create_collages", "chunk", "paste", "returned", "raised"}
    /\ Len(written) <= MaxImages

----------------------------------------------------------------------------
(* Properties of create_collages *)

\* the argument list of the call, its length and its corrupt positions
Images == cc.image_files
NumImages == Len(cc.image_files)
Corrupt == {k \in 1..NumImages : disk[Images[k]].fault # "none"}
UniformSizes == \A k \in 1..NumImages : disk[Images[k]].size = disk[Images[1]].size

\* decimal numeral of 1 <= k < 100
Numeral(k) == IF k < 10 THEN <<Digits[k + 1]>>
              ELSE <<Digits[(k \div 10) + 1], Digits[(k % 10) + 1]>>

\* <dir>/collage_<k>.jpg
CollageFile(dir, k) ==
    dir \o <<"/", "c", "o", "l", "l", "a", "g", "e", "_">> \o Numeral(k)
        \o <<".", "j", "p", "g">>

CeilDiv(n, p) == (n + p - 1) \div p

\* the ids of the images pasted into a canvas, in paste order
PastedIds(pixels) == [j \in 1..Len(pixels) |-> pixels[j].id]

\* the positions (1-based, in the whole list) that chunk k covers
ChunkPositions(k, p, n) == (((k - 1) * p) + 1)..min(k * p, n)

\* C2: with no failing image, create_collages processes exactly ceil(N/P)
\* chunks in order, chunk k being the contiguous slice (k-1)*P .. min(k*P,N)-1,
\* every image in exactly one chunk, only the last chunk shorter than P;
\* chunk k is written to <directory>/collage_k.jpg and the returned list is
\* collage_1.jpg .. collage_ceil(N/P).jpg in order.
C2_Chunking ==
    (NumImages >= 1 /\ Corrupt = {}) =>
        LET P == cc.images_per_collage
            chunks == CeilDiv(NumImages, P)
        IN  /\ pc = "paste" =>
                /\ cc.chunk_idx + 1 \in 1..chunks
                /\ cc.chunk_files =
                      [j \in 1..Cardinality(ChunkPositions(cc.chunk_idx + 1, P, NumImages))
                          |-> Images[(cc.chunk_idx * P) + j]]
                /\ (Len(cc.chunk_files) < P => cc.chunk_idx + 1 = chunks)
                /\ written = [k \in 1..cc.chunk_idx |-> CollageFile(CollageDir, k)]
            /\ pc = "returned" =>
                /\ returned.kind = "returned"
                /\ returned.paths = [k \in 1..chunks |-> CollageFile(CollageDir, k)]
                /\ written = returned.paths
                /\ \A k \in 1..chunks :
                     PastedIds(disk[CollageFile(CollageDir, k)].pixels) =
                        [j \in 1..Cardinality(ChunkPositions(k, P, NumImages))
                            |-> ((k - 1) * P) + j]
                /\ \A m \in 1..NumImages :
                     Cardinality({k \in 1..chunks :
                        m \in Range(PastedIds(disk[CollageFile(CollageDir, k)].pixels))}) = 1

C2_Witness ==
    /\ pc = "returned"
    /\ Corrupt = {}
    /\ cc.images_per_collage > 1
    /\ Len(returned.paths) >= 3
    /\ NumImages % cc.images_per_collage # 0

\* C3: with skip_errors, whichever single image is corrupt, create_collages
\* does not raise: the corrupt image is skipped, every other image of its
\* chunk is pasted at its own cell, the skipped cell stays white, the
\* collage is still written and its path returned.
C3_SkipNeverRaises ==
    (skip_errors /\ Cardinality(Corrupt) = 1) =>
        /\ pc # "raised"
        /\ pc = "returned" =>
             LET P == cc.images_per_collage
                 chunks == CeilDiv(NumImages, P)
             IN  /\ returned.paths = [k \in 1..chunks |-> CollageFile(CollageDir, k)]
                 /\ \A k \in 1..chunks :
                      LET file == disk[CollageFile(CollageDir, k)]
                      IN  /\ Range(PastedIds(file.pixels)) =
                                ChunkPositions(k, P, NumImages) \ Corrupt
                          /\ \A j \in 1..Len(file.pixels) :
                               LET idx == file.pixels[j].id - 1 - ((k - 1) * P)
                                   g == file.size[1] \div cc.thumb_size[1]
                               IN  file.pixels[j].at =
                                      <<(idx % g) * cc.thumb_size[1],
                                        (idx \div g) * cc.thumb_size[2]>>

\* C5: without skip_errors, a failing image of chunk k aborts create_collages
\* by propagating the error: nothing is returned, no file is written for
\* chunk k or a later one, and the files written are exactly
\* collage_1.jpg .. collage_(k-1).jpg.
C5_FirstCorrupt == CHOOSE f \in Corrupt : \A g \in Corrupt : f <= g

C5_AbortChunk ==
    IF C5_FirstCorrupt = 1 THEN 1
    ELSE ((C5_FirstCorrupt - 1) \div cc.images_per_collage) + 1

C5_AbortWritesPrefix ==
    (~skip_errors /\ Corrupt # {}) =>
        /\ pc # "returned"
        /\ returned.kind # "returned"
        /\ pc \in {"chunk", "paste"} => Len(written) < C5_AbortChunk
        /\ pc = "raised" =>
             /\ written = [k \in 1..(C5_AbortChunk - 1) |-> CollageFile(CollageDir, k)]
             /\ \A k \in 1..NumImages :
                  CollageFile(CollageDir, k) \in DOMAIN disk <=> k < C5_AbortChunk

C5_Witness ==
    /\ ~skip_errors
    /\ pc = "raised"
    /\ Len(written) >= 2
    /\ cc.images_per_collage > 1

\* C7: for a chunk of n >= 1 images the grid is rows = cols = g, g the least
\* integer with g*g >= n, and the canvas is (g*thumbWidth, g*thumbHeight)
\* with the thumb size of the first image of the whole list; 5 images of
\* 400x400 with target 1000 give collage_1.jpg of 800x800 holding the first
\* 4 images and collage_2.jpg of 400x400 holding the last one.
C7_Example ==
    /\ NumImages = 5
    /\ Corrupt = {}
    /\ \A k \in 1..5 : disk[Images[k]].size = <<400, 400>>
    /\ size = 1000

C7_SquareGrid ==
    /\ pc = "paste" =>
         LET n == Len(cc.chunk_files)
             g == cc.rows
             first == disk[Images[1]].size
         IN  /\ n >= 1
             /\ cc.rows = cc.cols
             /\ g * g >= n
             /\ (g - 1) * (g - 1) < n
             /\ (n = 1 => g = 1) /\ (n = 4 => g = 2) /\ (n = 5 => g = 3)
             /\ (n = 9 => g = 3) /\ (n = 10 => g = 4)
             /\ cc.collage.size = <<g * first[1], g * first[2]>>
    /\ \A k \in 1..Len(written) :
         LET file == disk[written[k]]
             first == disk[Images[1]].size
             g == ceil_sqrt(Len(chunk_of(Images, (k - 1) * cc.images_per_collage,
                                         cc.images_per_collage)))
         IN  file.size = <<g * first[1], g * first[2]>>
    /\ (C7_Example /\ pc = "returned") =>
         /\ written = <<CollageFile(CollageDir, 1), CollageFile(CollageDir, 2)>>
         /\ disk[CollageFile(CollageDir, 1)].size = <<800, 800>>
         /\ PastedIds(disk[CollageFile(CollageDir, 1)].pixels) = <<1, 2, 3, 4>>
         /\ disk[CollageFile(CollageDir, 2)].size = <<400, 400>>
         /\ PastedIds(disk[CollageFile(CollageDir, 2)].pixels) = <<5>>

C7_Witness == C7_Example /\ pc = "returned" /\ Len(written) = 2

\* C8: the effective target size is 2000 when targetSize < 100 and
\* targetSize otherwise; imagesPerRow = max(1, floor(effective / thumbWidth))
\* and imagesPerCollage = imagesPerRow^2 >= 1; (500, 50) gives 4 and 16,
\* (2500, 2000) gives 1 and 1.
C8_Chunking ==
    pc \in {"chunk", "paste", "returned"} /\ NumImages >= 1 =>
        LET w == disk[Images[1]].size[1]
            eff == cc.target_size
            r == cc.images_per_row
        IN  /\ w >= 1
            /\ (size < 100 => eff = 2000)
            /\ (size >= 100 => eff = size)
            /\ r >= 1
            /\ (eff >= w => r * w <= eff /\ eff < (r + 1) * w)
            /\ (eff < w => r = 1)
            /\ cc.images_per_collage = r * r
            /\ cc.images_per_collage >= 1
            /\ (w = 500 /\ size = 50 => r = 4 /\ cc.images_per_collage = 16)
            /\ (w = 2500 /\ size = 2000 => r = 1 /\ cc.images_per_collage = 1)

C8_Witness ==
    /\ pc = "chunk"
    /\ NumImages >= 1
    /\ disk[Images[1]].size[1] = 500
    /\ size = 50
    /\ cc.images_per_collage = 16

\* C10: in every chunk the images are assigned to cells in row-major order
\* (row = idx div cols, col = idx mod cols), every cell inside the grid and
\* no two images in the same cell; with uniform sizes no pasted image
\* overlaps another or leaves the canvas, and the white cells number
\* rows*cols minus the images pasted.
C10_Idx(region) == region.id - 1 - cc.i

C10_Cells ==
    pc = "paste" =>
        LET px == cc.collage.pixels
            tw == cc.thumb_size[1]
            th == cc.thumb_size[2]
            cell(j) == <<C10_Idx(px[j]) \div cc.cols, C10_Idx(px[j]) % cc.cols>>
        IN  /\ \A j \in 1..Len(px) :
                 /\ C10_Idx(px[j]) \in 0..(Len(cc.chunk_files) - 1)
                 /\ px[j].at = <<cell(j)[2] * tw, cell(j)[1] * th>>
                 /\ cell(j)[1] \in 0..(cc.rows - 1)
                 /\ cell(j)[2] \in 0..(cc.cols - 1)
            /\ \A j, k \in 1..Len(px) : j # k => cell(j) # cell(k)
            /\ UniformSizes =>
                 /\ \A j \in 1..Len(px) :
                      /\ px[j].at[1] + px[j].size[1] <= cc.collage.size[1]
                      /\ px[j].at[2] + px[j].size[2] <= cc.collage.size[2]
                 /\ \A j, k \in 1..Len(px) : j # k =>
                      \/ px[j].at[1] + px[j].size[1] <= px[k].at[1]
                      \/ px[k].at[1] + px[k].size[1] <= px[j].at[1]
                      \/ px[j].at[2] + px[j].size[2] <= px[k].at[2]
                      \/ px[k].at[2] + px[k].size[2] <= px[j].at[2]
            /\ Cardinality({c \in (0..(cc.rows - 1)) \X (0..(cc.cols - 1)) :
                               \A j \in 1..Len(px) : cell(j) # c})
                  = (cc.rows * cc.cols) - Len(px)

C10_Witness ==
    /\ pc = "paste"
    /\ UniformSizes
    /\ Len(cc.collage.pixels) >= 5
    /\ cc.idx > Len(cc.collage.pixels)
    /\ cc.rows * cc.cols > Len(cc.chunk_files)

----------------------------------------------------------------------------
(* main(), lines 132-192 *)

\* lines 153 and 187: generator.create_collages(image_files, args.size)
CallFrame(image_files, caller) ==
    [NoFrame EXCEPT !.image_files = image_files, !.target_size = size,
                    !.caller = caller]

\* line 146
root_thumbs == join(directory, thumbs)

\* lines 162-163: the entries of args.directory that are directories
subdirs == {d \in listdir(directory) : isdir(join(directory, d))}

\* line 175: the thumbs folder of one sub-directory
thumbs_dir_of(subdir) == join(join(directory, subdir), thumbs)

\* lines 147-153: a root thumbs folder with images is handed to create_collages
RootCollages ==
    /\ pc = "main"
    /\ isdir(root_thumbs)
    /\ get_image_files(root_thumbs) # <<>>
    /\ scans' = Append(scans, [run |-> runs, dir |-> root_thumbs,
                                files |-> get_image_files(root_thumbs)])
    /\ cc' = CallFrame(get_image_files(root_thumbs), "root")
    /\ written' = <<>>
    /\ pc' = "create_collages"
    /\ UNCHANGED <<dirs, disk, supported_formats, skip_errors, directory, size,
                   subdirs_flag, todo, returned, calls, runs>>

\* lines 147-159: a root thumbs folder without images ends the run
RootNoImages ==
    /\ pc = "main"
    /\ isdir(root_thumbs)
    /\ get_image_files(root_thumbs) = <<>>
    /\ scans' = Append(scans, [run |-> runs, dir |-> root_thumbs, files |-> <<>>])
    /\ pc' = "exit"
    /\ UNCHANGED <<dirs, disk, supported_formats, skip_errors, directory, size,
                   subdirs_flag, todo, cc, returned, written, calls, runs>>

\* lines 162-167: no root thumbs folder and no sub-directory
NoSubdirs ==
    /\ pc = "main"
    /\ ~isdir(root_thumbs)
    /\ subdirs = {}
    /\ pc' = "exit"
    /\ UNCHANGED <<dirs, disk, supported_formats, skip_errors, directory, size,
                   subdirs_flag, todo, cc, returned, written, scans, calls, runs>>

\* lines 162-170: no root thumbs folder, the loop over the sub-directories starts
EnterLoop ==
    /\ pc = "main"
    /\ ~isdir(root_thumbs)
    /\ subdirs # {}
    /\ todo' = subdirs
    /\ pc' = "loop"
    /\ UNCHANGED <<dirs, disk, supported_formats, skip_errors, directory, size,
                   subdirs_flag, cc, returned, written, scans, calls, runs>>

\* lines 175-178: the next sub-directory (os.listdir fixes no order) has no
\* thumbs folder
LoopNoThumbs ==
    /\ pc = "loop"
    /\ \E subdir \in todo :
         /\ ~isdir(thumbs_dir_of(subdir))
         /\ todo' = todo \ {subdir}
    /\ UNCHANGED <<dirs, disk, supported_formats, skip_errors, directory, size,
                   subdirs_flag, pc, cc, returned, written, scans, calls, runs>>

\* lines 180-184: its thumbs folder holds no image
LoopNoImages ==
    /\ pc = "loop"
    /\ \E subdir \in todo :
         /\ isdir(thumbs_dir_of(subdir))
         /\ get_image_files(thumbs_dir_of(subdir)) = <<>>
         /\ scans' = Append(scans, [run |-> runs, dir |-> thumbs_dir_of(subdir),
                                     files |-> <<>>])
         /\ todo' = todo \ {subdir}
    /\ UNCHANGED <<dirs, disk, supported_formats, skip_errors, directory, size,
                   subdirs_flag, pc, cc, returned, written, calls, runs>>

\* lines 180-187: its images are handed to create_collages
LoopCollages ==
    /\ pc = "loop"
    /\ \E subdir \in todo :
         /\ isdir(thumbs_dir_of(subdir))
         /\ get_image_files(thumbs_dir_of(subdir)) # <<>>
         /\ scans' = Append(scans, [run |-> runs, dir |-> thumbs_dir_of(subdir),
                                     files |-> get_image_files(thumbs_dir_of(subdir))])
         /\ cc' = CallFrame(get_image_files(thumbs_dir_of(subdir)), "loop")
         /\ todo' = todo \ {subdir}
    /\ written' = <<>>
    /\ pc' = "create_collages"
    /\ UNCHANGED <<dirs, disk, supported_formats, skip_errors, directory, size,
                   subdirs_flag, returned, calls, runs>>

\* line 170: the loop has visited every sub-directory, main returns
LoopDone ==
    /\ pc = "loop"
    /\ todo = {}
    /\ pc' = "exit"
    /\ UNCHANGED <<dirs, disk, supported_formats, skip_errors, directory, size,
                   subdirs_flag, todo, cc, returned, written, scans, calls, runs>>

\* lines 153, 187 and 195: nothing in main catches an exception that leaves
\* create_collages, so it ends the process
Uncaught ==
    /\ pc = "raised"
    /\ cc.caller \in {"root", "loop"}
    /\ pc' = "crashed"
    /\ UNCHANGED <<dirs, disk, supported_formats, skip_errors, directory, size,
                   subdirs_flag, todo, cc, returned, written, scans, calls, runs>>

\* the program is started again on the tree as the last run left it
Rerun ==
    /\ pc \in {"exit", "crashed"}
    /\ runs < MaxRuns
    /\ runs' = runs + 1
    /\ pc' = "main"
    /\ todo' = {}
    /\ cc' = NoFrame
    /\ returned' = NotReturned
    /\ written' = <<>>
    /\ UNCHANGED <<dirs, disk, supported_formats, skip_errors, directory, size,
                   subdirs_flag, scans, calls>>

----------------------------------------------------------------------------
(* Specification of the whole program on a directory tree *)

Root == <<"r">>
SubdirNames == {<<"a">>, <<"b">>}

TreeImageNames == {<<"a", ".", "j", "p", "g">>, <<"b", ".", "p", "n", "g">>}
StaleCollage == <<"c", "o", "l", "l", "a", "g", "e", "_", "1", ".", "j", "p", "g">>
TreeNames == TreeImageNames \cup {StaleCollage}
TreeFaults == {"none", "open", "convert"}
TreeThumbSize == <<400, 400>>
TreeTargets == {400, 2000}

\* pixel data differs from file to file
TreeId(d, n) == (10 * Len(d)) + ord(n[1])

Init ==
    /\ directory = Root
    /\ \E rootThumbs \in BOOLEAN, subs \in SUBSET SubdirNames :
         \E withThumbs \in SUBSET subs :
           LET T == {join(Root, thumbs) : x \in {y \in {1} : rootThumbs}}
                       \cup {join(join(Root, x), thumbs) : x \in withThumbs}
           IN  /\ dirs = {Root} \cup {join(Root, x) : x \in subs} \cup T
               /\ \E S \in SUBSET (T \X TreeNames) :
                    /\ Cardinality(S) <= MaxTreeFiles
                    /\ \E fault \in [S -> TreeFaults] :
                         /\ \A e \in S : e[2] = StaleCollage => fault[e] = "none"
                         /\ disk = [p \in {join(e[1], e[2]) : e \in S} |->
                                      LET e == CHOOSE f \in S : join(f[1], f[2]) = p
                                      IN  SourceImage(TreeId(e[1], e[2]), TreeThumbSize,
                                                      fault[e])]
    /\ supported_formats = DefaultFormats
    /\ skip_errors \in BOOLEAN
    /\ size \in TreeTargets
    /\ subdirs_flag \in BOOLEAN
    /\ pc = "main"
    /\ todo = {}
    /\ cc = NoFrame
    /\ returned = NotReturned
    /\ written = <<>>
    /\ scans = <<>>
    /\ calls = <<>>
    /\ runs = 1

\* main never hands an empty list to create_collages, so ReturnEmpty is no
\* step of the program
Next ==
    \/ RootCollages
    \/ RootNoImages
    \/ NoSubdirs
    \/ EnterLoop
    \/ LoopNoThumbs
    \/ LoopNoImages
    \/ LoopCollages
    \/ LoopDone
    \/ Begin
    \/ SampleOpenRaises
    \/ NextChunk
    \/ Paste
    \/ SkipImage
    \/ RaiseImage
    \/ Save
    \/ Return
    \/ Uncaught
    \/ Rerun

Spec == Init /\ [][Next]_vars

TypeOK ==
    /\ pc \in {"main", "loop", "create_collages", "chunk", "paste", "raised",
               "crashed", "exit"}
    /\ runs \in 1..MaxRuns
    /\ todo \subseteq SubdirNames

----------------------------------------------------------------------------
(* Properties of the whole program *)

\* the run is over: main returned, or an exception ended the process
RunOver == pc \in {"exit", "crashed"}

\* directory d holds a regular file with an image name
HasImages(d) ==
    \E p \in DOMAIN disk : dirname(p) = d /\ basename(p) \in TreeImageNames

\* directory d holds a corrupt image
HasCorrupt(d) ==
    \E p \in DOMAIN disk :
        dirname(p) = d /\ basename(p) \in TreeImageNames /\ disk[p].fault # "none"

\* the sub-directories of the root with a thumbs folder that holds an image
EligibleSubdirs ==
    {x \in SubdirNames :
        /\ join(Root, x) \in dirs
        /\ join(join(Root, x), thumbs) \in dirs
        /\ HasImages(join(join(Root, x), thumbs))}

\* the create_collages calls and the scans of the current run
RunCalls == {k \in 1..Len(calls) : calls[k].run = runs}
RunScans == {k \in 1..Len(scans) : scans[k].run = runs}

\* C4: when a composition error is not skipped (skip_errors = false) in one
\* directory of a multi-directory run, only that directory is aborted: the
\* driver continues, and every other directory that has a thumbs folder with
\* images still gets its collages written.
C4_OtherDirsUnaffected ==
    (~skip_errors /\ RunOver /\ join(Root, thumbs) \notin dirs) =>
        \A x \in EligibleSubdirs :
            ~HasCorrupt(join(join(Root, x), thumbs)) =>
                \E k \in RunCalls :
                    /\ calls[k].dir = join(join(Root, x), thumbs)
                    /\ calls[k].outcome = "returned"
                    /\ calls[k].written # <<>>

\* C6: running the pipeline again on a directory whose sources and config do
\* not change reaches a fixed point: no file written by create_collages is
\* returned by a later get_image_files, so every later run scans the same
\* list, builds the same chunks and writes the same collage_<k>.jpg names
\* with the same contents as the first run.
C6_FixedPoint ==
    /\ \A d \in {scans[k].dir : k \in 1..Len(scans)} :
         Range(get_image_files(d)) \cap
            (Range(written) \cup UNION {Range(calls[k].written) : k \in 1..Len(calls)}) = {}
    /\ \A j, k \in 1..Len(scans) :
         scans[j].dir = scans[k].dir => scans[j].files = scans[k].files
    /\ \A j, k \in 1..Len(calls) :
         calls[j].dir = calls[k].dir =>
            /\ calls[j].files = calls[k].files
            /\ calls[j].outcome = calls[k].outcome
            /\ calls[j].paths = calls[k].paths
            /\ calls[j].written = calls[k].written
            /\ calls[j].contents = calls[k].contents

C6_Witness ==
    /\ pc = "exit"
    /\ runs = 2
    /\ \E j, k \in 1..Len(calls) :
         /\ calls[j].run = 1
         /\ calls[k].run = 2
         /\ calls[j].dir = calls[k].dir
         /\ Len(calls[k].written) >= 2

\* C9: the driver processes either the root or the sub-directories, never
\* both: with <directory>/thumbs the pipeline runs at most once, on that
\* folder only, and no sub-directory is scanned or written to; otherwise it
\* runs exactly once for each immediate sub-directory with a thumbs folder
\* holding an eligible image, and for no other directory.  The -s/--subdirs
\* flag changes none of this.
C9_RootOrSubdirs ==
    RunOver =>
        IF join(Root, thumbs) \in dirs
        THEN /\ Cardinality(RunScans) <= 1
             /\ Cardinality(RunCalls) <= 1
             /\ \A k \in RunScans : scans[k].dir = join(Root, thumbs)
             /\ \A k \in RunCalls :
                  /\ calls[k].dir = join(Root, thumbs)
                  /\ \A j \in 1..Len(calls[k].written) :
                       dirname(calls[k].written[j]) = join(Root, thumbs)
        ELSE /\ \A x \in EligibleSubdirs :
                  Cardinality({k \in RunCalls :
                      calls[k].dir = join(join(Root, x), thumbs)}) = 1
             /\ \A k \in RunCalls :
                  \E x \in EligibleSubdirs : calls[k].dir = join(join(Root, x), thumbs)

====
